---- MODULE Spec2Model ----
(***************************************************************************)
(* Bookmark persistence core of the book-discovery application:            *)
(*   main.js     the store (readBookmarksFile / writeBookmarksFile),       *)
(*               idForBook and the five ipcMain handlers;                  *)
(*   preload.js  the command surface window.bookmarkAPI;                   *)
(*   home.js, search.js, book.js, bookmark.js: the callers.                *)
(*                                                                         *)
(* JavaScript values are tagged records with the same fields for every     *)
(* tag, strings are sequences of one-character strings, objects are        *)
(* sequences of <<property name, value>> pairs in insertion order.         *)
(***************************************************************************)
EXTENDS Integers, Sequences, FiniteSets, TLC

VARIABLES dirExists, file, now, inv, opsLeft, shown, probe, saved, ui

vars == <<dirExists, file, now, inv, opsLeft, shown, probe, saved, ui>>

-----------------------------------------------------------------------------
(* JavaScript values                                                       *)

Undef == [t |-> "undefined", s |-> <<>>, a |-> <<>>, n |-> 0]

Null == [t |-> "null", s |-> <<>>, a |-> <<>>, n |-> 0]

Str(s) == [t |-> "string", s |-> s, a |-> <<>>, n |-> 0]

Arr(a) == [t |-> "array", s |-> <<>>, a |-> a, n |-> 0]

Num(n) == [t |-> "number", s |-> <<>>, a |-> <<>>, n |-> n]

\* The string Date.prototype.toISOString returns for the instant n.
Iso(n) == [t |-> "isostring", s |-> <<>>, a |-> <<>>, n |-> n]

\* ToBoolean: undefined, null, '' and 0 are falsy; every array is truthy.
Truthy(v) ==
    CASE v.t = "undefined" -> FALSE
      [] v.t = "null" -> FALSE
      [] v.t = "string" -> v.s # <<>>
      [] v.t = "number" -> v.n # 0
      [] OTHER -> TRUE

\* x || y
Or(x, y) == IF Truthy(x) THEN x ELSE y

\* x && y
And(x, y) == IF Truthy(x) THEN y ELSE x

Digit(d) == <<"0", "1", "2", "3", "4", "5", "6", "7", "8", "9">>[d + 1]

RECURSIVE Decimal(_)
Decimal(n) == IF n < 10 THEN <<Digit(n)>> ELSE Decimal(n \div 10) \o <<Digit(n % 10)>>

RECURSIVE Join(_)
Join(a) ==
    IF a = <<>> THEN <<>>
    ELSE IF Len(a) = 1 THEN a[1]
    ELSE a[1] \o <<",">> \o Join(Tail(a))

\* ToString, as a template literal ${v} applies it.
ToStr(v) ==
    CASE v.t = "string" -> v.s
      [] v.t = "number" -> Decimal(v.n)
      [] v.t = "array" -> Join(v.a)
      [] v.t = "isostring" -> <<"T">> \o Decimal(v.n) \o <<"Z">>
      [] v.t = "null" -> <<"n", "u", "l", "l">>
      [] OTHER -> <<"u", "n", "d", "e", "f", "i", "n", "e", "d">>

\* v[0]: the first element of an array, the first character of a string.
Index0(v) ==
    CASE v.t = "array" -> IF v.a = <<>> THEN Undef ELSE Str(v.a[1])
      [] v.t = "string" -> IF v.s = <<>> THEN Undef ELSE Str(<<v.s[1]>>)
      [] OTHER -> Undef

IsArray(v) == v.t = "array"

-----------------------------------------------------------------------------
(* Objects                                                                 *)

Keys(o) == {o[i][1] : i \in 1..Len(o)}

\* o.f, undefined when o has no property f.
Get(o, f) ==
    IF f \in Keys(o)
    THEN o[CHOOSE i \in 1..Len(o) : o[i][1] = f][2]
    ELSE Undef

\* o.f = v: in place when o has the property, appended otherwise.
Set(o, f, v) ==
    IF f \in Keys(o)
    THEN [i \in 1..Len(o) |-> IF o[i][1] = f THEN <<f, v>> ELSE o[i]]
    ELSE Append(o, <<f, v>>)

\* {...o, ...u}
RECURSIVE Spread(_, _)
Spread(o, u) ==
    IF u = <<>> THEN o ELSE Spread(Set(o, u[1][1], u[1][2]), Tail(u))

\* The absent record (null) a caller may pass where a book is expected.
NoBook == <<<<"null", Null>>>>

Sep == <<"|", "|">>

-----------------------------------------------------------------------------
(* Canonical identity                                                      *)

\* A separator of one bar instead of two.
CompositeOneBar(title, author, cover) ==
    Str(ToStr(title) \o <<"|">> \o ToStr(author) \o <<"|">> \o ToStr(cover))

Composite(title, author, cover) ==
    Str(ToStr(title) \o Sep \o ToStr(author) \o Sep \o ToStr(cover))

\* main.js idForBook
idForBook(book) ==
    IF book = NoBook THEN Null
    ELSE IF Truthy(Get(book, "key")) THEN Get(book, "key")
    ELSE Composite(Or(Get(book, "title"), Str(<<>>)),
                   Or(And(Get(book, "author_name"), Index0(Get(book, "author_name"))),
                      Str(<<>>)),
                   Or(Get(book, "cover_i"), Str(<<>>)))

\* home.js idForBook
homeIdForBook(book) ==
    IF book = NoBook THEN Null
    ELSE IF Truthy(Get(book, "key")) THEN Get(book, "key")
    ELSE Composite(Or(Get(book, "title"), Str(<<>>)),
                   Or(And(Get(book, "author_name"), Index0(Get(book, "author_name"))),
                      Str(<<>>)),
                   Or(Get(book, "cover_i"), Str(<<>>)))

\* search.js idForBook
searchIdForBook(book) ==
    IF book = NoBook THEN Null
    ELSE Or(Get(book, "key"),
            Composite(Or(Get(book, "title"), Str(<<>>)),
                      Or(And(Get(book, "author_name"),
                             Index0(Get(book, "author_name"))),
                         Str(<<>>)),
                      Or(Get(book, "cover_i"), Str(<<>>))))

\* book.js idForBook
detailIdForBook(b) ==
    IF b = NoBook THEN Null
    ELSE IF Truthy(Get(b, "key")) THEN Get(b, "key")
    ELSE Composite(Or(Get(b, "title"), Str(<<>>)),
                   Or(And(Get(b, "author_name"),
                          IF IsArray(Get(b, "author_name"))
                          THEN Index0(Get(b, "author_name"))
                          ELSE Get(b, "author_name")),
                      Str(<<>>)),
                   Or(Get(b, "cover_i"), Str(<<>>)))

\* The record the search page sends to add.
searchPayload(book) ==
    << <<"title", Or(Get(book, "title"), Str(<<>>))>>,
       <<"author_name", Or(Get(book, "author_name"), Arr(<<>>))>>,
       <<"cover_i", Or(Get(book, "cover_i"), Null)>>,
       <<"key", Or(Get(book, "key"), Null)>> >>

\* The record the home page and the detail page send to add: the same four
\* fields and the page's book as raw.
pagePayload(book) == Append(searchPayload(book), <<"raw", book>>)

-----------------------------------------------------------------------------
(* The persisted document: data/bookmark.json                              *)

\* getBookmarksFilePath names no file yet.
Absent == [k |-> "absent", list |-> <<>>]

\* The file exists and cannot be read (permissions, device error).
Unreadable == [k |-> "unreadable", list |-> <<>>]

\* Zero-length content: also what the file holds between writeFile's open
\* (which truncates) and its write.
EmptyText == [k |-> "empty", list |-> <<>>]

\* Content JSON.parse rejects.
CorruptText == [k |-> "corrupt", list |-> <<>>]

\* Valid JSON whose outermost value is no array.
NonArrayText == [k |-> "nonarray", list |-> <<>>]

\* A JSON array of objects.
ArrayText(list) == [k |-> "array", list |-> list]

\* JSON.stringify of an object: a property whose value is undefined is left
\* out, at every depth.
RECURSIVE ToJson(_)
ToJson(o) ==
    IF o = <<>> THEN <<>>
    ELSE IF o[1][1] = "raw" THEN <<<<"raw", ToJson(o[1][2])>>>> \o ToJson(Tail(o))
    ELSE IF o[1][2] = Undef THEN ToJson(Tail(o))
    ELSE <<o[1]>> \o ToJson(Tail(o))

\* JSON.stringify(data, null, 2) of a collection.
Stringify(list) == ArrayText([i \in 1..Len(list) |-> ToJson(list[i])])

\* A parse that rejects nothing.
ParseNeverFails(doc) == FALSE

\* A parse of the text itself, which rejects the zero-length text.
ParseRejectsEmpty(doc) == doc.k \in {"corrupt", "empty"}

\* JSON.parse(text || '[]'): the value, or a SyntaxError.
ParseFails(doc) == doc.k = "corrupt"

Parse(doc) ==
    CASE doc.k = "empty" -> ArrayText(<<>>)
      [] OTHER -> doc

-----------------------------------------------------------------------------
(* The handlers' transforms (synchronous, between the load and the save)   *)

\* x === y for the values of the model; two arrays are never the same object.
StrictEq(x, y) == x.t # "array" /\ x = y

RECURSIVE FilterOut(_, _)
\* list.filter(b => b._id !== id)
FilterOut(list, id) ==
    IF list = <<>> THEN <<>>
    ELSE IF StrictEq(Get(list[1], "_id"), id) THEN FilterOut(Tail(list), id)
    ELSE <<list[1]>> \o FilterOut(Tail(list), id)

\* A findIndex that gives the first entry when no entry has the id.
FindIndexOrFirst(list, id) ==
    IF \E i \in 1..Len(list) : StrictEq(Get(list[i], "_id"), id)
    THEN CHOOSE i \in 1..Len(list) :
            /\ StrictEq(Get(list[i], "_id"), id)
            /\ \A j \in 1..(i - 1) : ~StrictEq(Get(list[j], "_id"), id)
    ELSE IF list # <<>> THEN 1 ELSE 0

\* list.findIndex(b => b._id === id), counted from 1; 0 for -1.
FindIndex(list, id) ==
    IF \E i \in 1..Len(list) : StrictEq(Get(list[i], "_id"), id)
    THEN CHOOSE i \in 1..Len(list) :
            /\ StrictEq(Get(list[i], "_id"), id)
            /\ \A j \in 1..(i - 1) : ~StrictEq(Get(list[j], "_id"), id)
    ELSE 0

\* A test of the first entry only.
SomeFirst(list, id) == list # <<>> /\ StrictEq(Get(list[1], "_id"), id)

\* list.some(b => b._id === id)
Some(list, id) == \E i \in 1..Len(list) : StrictEq(Get(list[i], "_id"), id)

\* An entry whose review is always empty.
NewEntryNoReview(book, t) ==
    << <<"_id", idForBook(book)>>,
       <<"title", Or(Get(book, "title"), Str(<<>>))>>,
       <<"author_name", Or(Get(book, "author_name"), Arr(<<>>))>>,
       <<"cover_i", Or(Get(book, "cover_i"), Null)>>,
       <<"key", Or(Get(book, "key"), Null)>>,
       <<"review", Str(<<>>)>>,
       <<"addedAt", Iso(t)>>,
       <<"raw", book>> >>

\* The entry bookmarks-add constructs.
NewEntry(book, t) ==
    << <<"_id", idForBook(book)>>,
       <<"title", Or(Get(book, "title"), Str(<<>>))>>,
       <<"author_name", Or(Get(book, "author_name"), Arr(<<>>))>>,
       <<"cover_i", Or(Get(book, "cover_i"), Null)>>,
       <<"key", Or(Get(book, "key"), Null)>>,
       <<"review", Or(Get(book, "review"), Str(<<>>))>>,
       <<"addedAt", Iso(t)>>,
       <<"raw", book>> >>

\* The new entry unshifted with no filter before it.
addListNoFilter(list, book, t) == <<NewEntry(book, t)>> \o list

\* An add that keeps the new entry alone.
addListAlone(list, book, t) == <<NewEntry(book, t)>>

\* bookmarks-add: filter, then unshift.
addList(list, book, t) == <<NewEntry(book, t)>> \o FilterOut(list, idForBook(book))

\* A remove that filters nothing out.
removeListNothing(list, id) == list

\* bookmarks-remove
removeList(list, id) == FilterOut(list, id)

\* The caller's fields spread last: { ...list[idx], updatedAt, ...updates }.
MergedUpdatesLast(entry, updates, t) == Spread(Set(entry, "updatedAt", Iso(t)), updates)

\* { ...list[idx], ...updates, updatedAt: new Date().toISOString() }
Merged(entry, updates, t) == Set(Spread(entry, updates), "updatedAt", Iso(t))

\* The merged entry left where it was.
updateListInPlace(list, idx, updates, t) ==
    [list EXCEPT ![idx] = Merged(list[idx], updates, t)]

\* bookmarks-update: merge into list[idx], splice it out, unshift it.
updateList(list, idx, updates, t) ==
    <<Merged(list[idx], updates, t)>>
        \o SubSeq(list, 1, idx - 1) \o SubSeq(list, idx + 1, Len(list))

-----------------------------------------------------------------------------
(* The list page (bookmark.js)                                             *)

\* new Date(item.addedAt || item.dateAdded || 0) as milliseconds.
AddedTime(item) ==
    LET v == Or(Get(item, "addedAt"), Or(Get(item, "dateAdded"), Num(0)))
    IN v.n

RECURSIVE InsertByDate(_, _)
InsertByDate(sorted, item) ==
    IF sorted = <<>> THEN <<item>>
    ELSE IF AddedTime(sorted[1]) >= AddedTime(item)
         THEN <<sorted[1]>> \o InsertByDate(Tail(sorted), item)
         ELSE <<item>> \o sorted

RECURSIVE SortByDate(_)
\* list.sort((a, b) => new Date(b.addedAt ...) - new Date(a.addedAt ...)):
\* newest addedAt first, a stable sort.
SortByDate(list) ==
    IF list = <<>> THEN <<>>
    ELSE InsertByDate(SortByDate(SubSeq(list, 1, Len(list) - 1)), list[Len(list)])

IdsOf(list) == [i \in 1..Len(list) |-> Get(list[i], "_id")]

-----------------------------------------------------------------------------
(* Inputs and bounds                                                       *)

\* Invocations dispatched in one run.
MaxOps == 2

\* Invocations that may be in flight together: ipcMain.handle starts a
\* handler for every invoke it receives and awaits none of them.
Slots == {1, 2}

BookA ==
    << <<"key", Str(<<"k">>)>>, <<"title", Str(<<"a">>)>>,
       <<"author_name", Arr(<< <<"x">> >>)>>, <<"cover_i", Num(1)>> >>

\* A record with no catalog key: its key property is there and undefined,
\* as in { key: doc.key, ... } built from a doc that has none.
BookB ==
    << <<"key", Undef>>, <<"title", Str(<<"b">>)>>,
       <<"author_name", Arr(<< <<"x">> >>)>>, <<"cover_i", Num(1)>> >>

Books == {NoBook, BookA, BookB}

\* The id update and isBookmarked are called with.
Ids == {idForBook(BookA)}

\* The ids remove is called with.
RemoveIds == {idForBook(BookA), idForBook(BookB)}

\* An instant no clock reading of a run gives.
Elsewhen == Iso(9)

\* The fields update is called with: the review a page saves, with an
\* updatedAt of the caller's; and fields of the entry the store itself sets.
UpdateSets ==
    { << <<"review", Str(<<"r">>)>>, <<"updatedAt", Elsewhen>> >>,
      << <<"_id", idForBook(BookB)>>, <<"addedAt", Elsewhen>> >> }

\* Collections an earlier run of the program left in the document.
StoredOne == addList(<<>>, BookA, 0)

StoredTwo == addList(StoredOne, BookB, 1)

InitialFiles ==
    { Absent, Unreadable, EmptyText, CorruptText, NonArrayText,
      ArrayText(<<>>), Stringify(StoredOne), Stringify(StoredTwo) }

-----------------------------------------------------------------------------
(* State                                                                   *)

\* A slot with no invocation in it.
Idle ==
    [ op |-> "none", pc |-> "idle", book |-> <<>>, id |-> Undef, updates |-> <<>>,
      doc |-> Absent, pre |-> <<>>, res |-> <<>>, val |-> FALSE, err |-> "",
      enoent |-> FALSE, nboot |-> 0, nsave |-> 0, conc |-> FALSE ]

NotProbed == [id |-> Undef, via |-> Undef]

\* Per caller: the id it computed for the record, and the _id bookmarks-add
\* stores for what the caller sends.
NoProbe == [ book |-> <<>>, store |-> NotProbed, home |-> NotProbed,
             search |-> NotProbed, detail |-> NotProbed, done |-> {} ]

NothingShown == [ src |-> <<>>, rows |-> <<>>, rendered |-> FALSE ]

\* The collection last handed to writeBookmarksFile and written (history).
NotSaved == [ set |-> FALSE, list |-> <<>> ]

\* No page has a handler running.
NoPage == [ kind |-> "none" ]

InFlight(i) == inv[i].pc \notin {"idle", "done", "failed"}

Init ==
    /\ file \in InitialFiles
    /\ dirExists \in BOOLEAN
    /\ (file # Absent => dirExists)
    /\ now = 1
    /\ inv = [i \in Slots |-> Idle]
    /\ opsLeft = MaxOps
    /\ shown = NothingShown
    /\ probe = NoProbe
    /\ saved = NotSaved
    /\ ui = NoPage

-----------------------------------------------------------------------------
(* preload.js: the command surface                                         *)

Start(i, op, book, id, updates) ==
    /\ inv[i].pc = "idle"
    /\ \A j \in Slots : j < i => inv[j].pc # "idle"
    /\ opsLeft > 0
    /\ opsLeft' = opsLeft - 1
    /\ inv' = [inv EXCEPT ![i] =
            [Idle EXCEPT !.op = op, !.pc = "read", !.book = book, !.id = id,
                         !.updates = updates,
                         !.conc = \E j \in Slots \ {i} : InFlight(j)]]
    /\ UNCHANGED <<dirExists, file, now, shown, probe, saved, ui>>

\* getAll: () => ipcRenderer.invoke('bookmarks-get')
getAll(i) == Start(i, "get", <<>>, Undef, <<>>)

\* add: (book) => ipcRenderer.invoke('bookmarks-add', book)
add(i) == \E book \in Books : Start(i, "add", book, Undef, <<>>)

\* remove: (id) => ipcRenderer.invoke('bookmarks-remove', id)
remove(i) == \E id \in RemoveIds : Start(i, "remove", <<>>, id, <<>>)

\* update: (id, updates) => ipcRenderer.invoke('bookmarks-update', id, updates)
update(i) == \E id \in Ids, u \in UpdateSets : Start(i, "update", <<>>, id, u)

\* isBookmarked: (id) => ipcRenderer.invoke('bookmarks-check', id)
isBookmarked(i) == \E id \in Ids : Start(i, "check", <<>>, id, <<>>)

-----------------------------------------------------------------------------
(* main.js: readBookmarksFile                                              *)

\* A load that reads again when the read fails for a reason other than the
\* file's absence.
readFileRetries(i) ==
    /\ inv[i].pc = "read"
    /\ inv' = [inv EXCEPT ![i] =
            CASE file.k = "unreadable" -> @
              [] file.k = "absent" -> [@ EXCEPT !.pc = "bootMkdir", !.enoent = TRUE]
              [] OTHER -> [@ EXCEPT !.pc = "loaded", !.doc = file]]
    /\ UNCHANGED <<dirExists, file, now, opsLeft, shown, probe, saved, ui>>

\* A catch that takes every error of readFile for ENOENT.
readFileAnyErrorBoots(i) ==
    /\ inv[i].pc = "read"
    /\ inv' = [inv EXCEPT ![i] =
            CASE file.k \in {"unreadable", "absent"} ->
                    [@ EXCEPT !.pc = "bootMkdir", !.enoent = TRUE]
              [] OTHER -> [@ EXCEPT !.pc = "loaded", !.doc = file]]
    /\ UNCHANGED <<dirExists, file, now, opsLeft, shown, probe, saved, ui>>

\* await fs.readFile(file, 'utf8'): the text, ENOENT, or another error that
\* the catch rethrows.
readFile(i) ==
    /\ inv[i].pc = "read"
    /\ inv' = [inv EXCEPT ![i] =
            CASE file.k = "unreadable" -> [@ EXCEPT !.pc = "failed", !.err = "EACCES"]
              [] file.k = "absent" -> [@ EXCEPT !.pc = "bootMkdir", !.enoent = TRUE]
              [] OTHER -> [@ EXCEPT !.pc = "loaded", !.doc = file]]
    /\ UNCHANGED <<dirExists, file, now, opsLeft, shown, probe, saved, ui>>

\* ENOENT: await fs.mkdir(path.dirname(file), { recursive: true })
bootMkdir(i) ==
    /\ inv[i].pc = "bootMkdir"
    /\ dirExists' = TRUE
    /\ inv' = [inv EXCEPT ![i].pc = "bootOpen"]
    /\ UNCHANGED <<file, now, opsLeft, shown, probe, saved, ui>>

\* What a write of text at offset 0 leaves in a file that holds cur: text
\* itself when cur is no longer than text; otherwise text followed by the
\* tail of cur, which no longer parses. '[]' is shorter than every array
\* with an entry; of two arrays with entries either may be the longer.
WriteOver(cur, text) ==
    IF cur.k \in {"empty", "absent"} \/ cur = text THEN {text}
    ELSE IF text = ArrayText(<<>>) THEN {CorruptText}
    ELSE IF cur = ArrayText(<<>>) THEN {text}
    ELSE {text, CorruptText}

\* fs.writeFile(file, '[]', 'utf8') opens the file: created, or truncated.
bootOpen(i) ==
    /\ inv[i].pc = "bootOpen"
    /\ file' = EmptyText
    /\ inv' = [inv EXCEPT ![i].pc = "bootWrite"]
    /\ UNCHANGED <<dirExists, now, opsLeft, shown, probe, saved, ui>>

\* A bootstrap that opens the file and writes nothing.
bootWriteNothing(i) ==
    /\ inv[i].pc = "bootWrite"
    /\ inv' = [inv EXCEPT ![i].pc = "loaded", ![i].doc = ArrayText(<<>>),
                          ![i].nboot = @ + 1]
    /\ UNCHANGED <<dirExists, file, now, opsLeft, shown, probe, saved, ui>>

\* fs.writeFile(file, '[]', 'utf8') writes; readBookmarksFile returns [].
bootWrite(i) ==
    /\ inv[i].pc = "bootWrite"
    /\ file' \in WriteOver(file, ArrayText(<<>>))
    /\ inv' = [inv EXCEPT ![i].pc = "loaded", ![i].doc = ArrayText(<<>>),
                          ![i].nboot = @ + 1]
    /\ UNCHANGED <<dirExists, now, opsLeft, shown, probe, saved, ui>>

-----------------------------------------------------------------------------
(* main.js: the handlers, from the load's return to the save's call        *)

\* Every handler saves.
SavesAlways(op) == TRUE

\* Only bookmarks-add saves.
SavesOnlyAdd(op) == op = "add"

\* Whether the handler of op saves what it computed.
Saves(op) == op \in {"add", "remove", "update"}

\* new Date(): the instant of the last reading, or a later one.
Timestamps == {now, now + 1}

\* bookmarks-add with no test of the id.
ThrownUnlessInvalid(op, doc, book, id) ==
    IF ParseFails(doc) THEN "SyntaxError"
    ELSE IF op = "get" THEN ""
    ELSE IF Parse(doc).k # "array" THEN "TypeError"
    ELSE IF op = "update" /\ FindIndex(Parse(doc).list, id) = 0 THEN "Bookmark not found"
    ELSE ""

\* What the handler throws with the document doc loaded, "" when it throws
\* nothing: the SyntaxError of JSON.parse, 'Invalid book data', the
\* TypeError of list.filter / findIndex / some on a value that is no array,
\* 'Bookmark not found'.
Thrown(op, doc, book, id) ==
    IF ParseFails(doc) THEN "SyntaxError"
    ELSE IF op = "get" THEN ""
    ELSE IF op = "add" /\ ~Truthy(idForBook(book)) THEN "Invalid book data"
    ELSE IF Parse(doc).k # "array" THEN "TypeError"
    ELSE IF op = "update" /\ FindIndex(Parse(doc).list, id) = 0 THEN "Bookmark not found"
    ELSE ""

\* The collection the handler returns (and saves, when it saves).
Computed(op, list, book, id, updates, t) ==
    CASE op = "add" -> addList(list, book, t)
      [] op = "remove" -> removeList(list, id)
      [] op = "update" -> updateList(list, FindIndex(list, id), updates, t)
      [] OTHER -> list

\* The handler's run from the return of readBookmarksFile to its own return
\* or to writeBookmarksFile's mkdir, which finds the directory in place:
\* the load read the file in it or made it.
handle(i) ==
    LET c == inv[i]
        err == Thrown(c.op, c.doc, c.book, c.id)
        list == Parse(c.doc).list
    IN
    /\ c.pc = "loaded"
    /\ IF err # ""
       THEN /\ inv' = [inv EXCEPT ![i].pc = "failed", ![i].err = err]
            /\ UNCHANGED <<now, dirExists>>
       ELSE \E t \in IF c.op \in {"add", "update"} THEN Timestamps ELSE {now} :
               /\ now' = t
               /\ inv' = [inv EXCEPT
                    ![i].pc = IF Saves(c.op) THEN "saveOpen" ELSE "done",
                    ![i].doc = Parse(c.doc),
                    ![i].pre = list,
                    ![i].res = Computed(c.op, list, c.book, c.id, c.updates, t),
                    ![i].val = c.op = "check" /\ Some(list, c.id)]
               /\ dirExists' = (dirExists \/ Saves(c.op))
    /\ UNCHANGED <<file, opsLeft, shown, probe, saved, ui>>

-----------------------------------------------------------------------------
(* main.js: writeBookmarksFile                                             *)

\* fs.writeFile(file, JSON.stringify(data, null, 2), 'utf8') opens the file.
saveOpen(i) ==
    /\ inv[i].pc = "saveOpen"
    /\ file' = EmptyText
    /\ inv' = [inv EXCEPT ![i].pc = "saveWrite"]
    /\ UNCHANGED <<dirExists, now, opsLeft, shown, probe, saved, ui>>

\* A save that opens the file and writes nothing.
saveWriteNothing(i) ==
    /\ inv[i].pc = "saveWrite"
    /\ inv' = [inv EXCEPT ![i].pc = "done", ![i].nsave = @ + 1]
    /\ saved' = [set |-> TRUE, list |-> inv[i].res]
    /\ UNCHANGED <<dirExists, file, now, opsLeft, shown, probe, ui>>

\* fs.writeFile writes the text; the handler returns the collection.
saveWrite(i) ==
    /\ inv[i].pc = "saveWrite"
    /\ file' \in WriteOver(file, Stringify(inv[i].res))
    /\ inv' = [inv EXCEPT ![i].pc = "done", ![i].nsave = @ + 1]
    /\ saved' = [set |-> TRUE, list |-> inv[i].res]
    /\ UNCHANGED <<dirExists, now, opsLeft, shown, probe, ui>>

-----------------------------------------------------------------------------
(* The callers                                                             *)

\* The invoke's promise settles with the handler's value or its error.
settle(i) ==
    /\ inv[i].pc \in {"done", "failed"}
    /\ inv' = [inv EXCEPT ![i] = Idle]
    /\ UNCHANGED <<dirExists, file, now, opsLeft, shown, probe, saved, ui>>

\* bookmark.js init: the rows of the list page, from getAll's collection.
init(i) ==
    /\ inv[i].pc = "done"
    /\ inv[i].op = "get"
    /\ inv[i].doc.k = "array"
    /\ shown' = [ src |-> IdsOf(inv[i].res),
                  rows |-> IdsOf(SortByDate(inv[i].res)),
                  rendered |-> TRUE ]
    /\ inv' = [inv EXCEPT ![i] = Idle]
    /\ UNCHANGED <<dirExists, file, now, opsLeft, probe, saved, ui>>

StoreStep(i) ==
    \/ readFile(i) \/ bootMkdir(i) \/ bootOpen(i) \/ bootWrite(i)
    \/ handle(i)
    \/ saveOpen(i) \/ saveWrite(i)
    \/ settle(i)

Step(i) == StoreStep(i) \/ init(i)

Dispatch(i) == getAll(i) \/ add(i) \/ remove(i) \/ update(i) \/ isBookmarked(i)

Next == \E i \in Slots : Dispatch(i) \/ Step(i)

\* Any number of callers, no one waiting for another.
Spec == Init /\ [][Next]_vars

\* One caller that awaits each operation before it issues the next.
NextSeq ==
    \E i \in Slots :
        \/ (\A j \in Slots : inv[j].pc = "idle") /\ Dispatch(i)
        \/ Step(i)

SpecSeq == Init /\ [][NextSeq]_vars

\* One invocation of any operation on any store, with every file-system
\* step of the handler completing and its promise settling.
InitOne ==
    /\ file \in InitialFiles
    /\ dirExists \in BOOLEAN
    /\ (file # Absent => dirExists)
    /\ now = 1
    /\ inv = [i \in Slots |-> Idle]
    /\ opsLeft = 1
    /\ shown = NothingShown
    /\ probe = NoProbe
    /\ saved = NotSaved
    /\ ui = NoPage

SpecOneFair == InitOne /\ [][NextSeq]_vars /\ WF_vars(\E i \in Slots : StoreStep(i))

\* add calls only, one after the other, on a store that is absent or empty.
MaxAdds == 4

InitAdds ==
    /\ file \in {Absent, ArrayText(<<>>)}
    /\ dirExists \in BOOLEAN
    /\ (file # Absent => dirExists)
    /\ now = 1
    /\ inv = [i \in Slots |-> Idle]
    /\ opsLeft = MaxAdds
    /\ shown = NothingShown
    /\ probe = NoProbe
    /\ saved = NotSaved
    /\ ui = NoPage

NextAdds ==
    \E i \in Slots :
        \/ (\A j \in Slots : inv[j].pc = "idle") /\ add(i)
        \/ StoreStep(i)

SpecAdds == InitAdds /\ [][NextAdds]_vars

-----------------------------------------------------------------------------
(* The identity functions on their own: one record, identified by the      *)
(* store and by each page, and the id the store gives the record each      *)
(* page sends to add.                                                      *)

\* Field values a book-like record is drawn from; LeftOut leaves the
\* property out of the record.
LeftOut == [t |-> "leftout", s |-> <<>>, a |-> <<>>, n |-> 0]

ProbeKeys == {LeftOut, Null, Str(<<>>), Str(<<"k">>)}

ProbeTitles == {LeftOut, Null, Str(<<>>), Str(<<"a">>), Str(<<"a", "|", "|", "b">>)}

ProbeAuthors ==
    { LeftOut, Null, Arr(<<>>), Arr(<< <<"x", "y">> >>), Arr(<< <<"x", "y">>, <<"z">> >>),
      Arr(<< <<>> >>), Str(<<"x", "y">>) }

ProbeCovers == {LeftOut, Null, Num(0), Num(1), Num(12), Str(<<"c">>)}

Prop(f, v) == IF v = LeftOut THEN <<>> ELSE <<<<f, v>>>>

ProbeBooks ==
    { Prop("key", k) \o Prop("title", ti) \o Prop("author_name", au) \o Prop("cover_i", co) :
        k \in ProbeKeys, ti \in ProbeTitles, au \in ProbeAuthors, co \in ProbeCovers }

Probed(what, id, via) ==
    /\ what \notin probe.done
    /\ probe' = [probe EXCEPT ![what] = [id |-> id, via |-> via], !.done = @ \cup {what}]
    /\ UNCHANGED <<dirExists, file, now, inv, opsLeft, shown, saved, ui>>

\* main.js bookmarks-add: const id = idForBook(book)
storeIdentifies ==
    Probed("store", idForBook(probe.book), idForBook(probe.book))

\* home.js makeCard: const bookId = idForBook(book) || '', and the _id
\* bookmarks-add stores for the record the click handler sends.
homeIdentifies ==
    /\ probe.book # NoBook
    /\ Probed("home", Or(homeIdForBook(probe.book), Str(<<>>)),
              idForBook(pagePayload(probe.book)))

\* search.js createBookCard: const id = idForBook(book), and the _id
\* bookmarks-add stores for the record the click handler sends.
searchIdentifies ==
    /\ probe.book # NoBook
    /\ Probed("search", searchIdForBook(probe.book),
              idForBook(searchPayload(probe.book)))

\* book.js: const bookId = idForBook(book), and the _id bookmarks-add stores
\* for the record the click handler sends.
detailIdentifies ==
    /\ probe.book # NoBook
    /\ Probed("detail", detailIdForBook(probe.book),
              idForBook(pagePayload(probe.book)))

InitId ==
    /\ file = ArrayText(<<>>)
    /\ dirExists = TRUE
    /\ now = 1
    /\ inv = [i \in Slots |-> Idle]
    /\ opsLeft = 0
    /\ shown = NothingShown
    /\ probe \in {[NoProbe EXCEPT !.book = b] : b \in ProbeBooks \cup {NoBook}}
    /\ saved = NotSaved
    /\ ui = NoPage

NextId == storeIdentifies \/ homeIdentifies \/ searchIdentifies \/ detailIdentifies

SpecId == InitId /\ [][NextId]_vars

-----------------------------------------------------------------------------
(* Two records offered to bookmarks-add: the id and the error of each      *)

PairKeys == {LeftOut, Str(<<"k">>), Str(<<"a", "|", "|", "x", "|", "|", "1">>)}

PairTitles == {LeftOut, Str(<<"a">>), Str(<<"a", "|", "|", "b">>)}

PairAuthors == {LeftOut, Arr(<< <<"x">> >>), Arr(<< <<"b", "|", "|", "x">> >>)}

PairCovers == {LeftOut, Num(1)}

PairBooks ==
    { Prop("key", k) \o Prop("title", ti) \o Prop("author_name", au) \o Prop("cover_i", co) :
        k \in PairKeys, ti \in PairTitles, au \in PairAuthors, co \in PairCovers }
    \cup {NoBook}

InitPair ==
    /\ file = ArrayText(<<>>)
    /\ dirExists = TRUE
    /\ now = 1
    /\ inv = [i \in Slots |-> Idle]
    /\ opsLeft = 0
    /\ shown = NothingShown
    /\ probe \in {[books |-> <<a, b>>, ids |-> <<>>, errs |-> <<>>] : a, b \in PairBooks}
    /\ saved = NotSaved
    /\ ui = NoPage

\* bookmarks-add, lines 49-50, for each record of the pair: its id, and
\* the error the handler throws on it.
identifyPair ==
    /\ probe.ids = <<>>
    /\ probe' = [probe EXCEPT
            !.ids = [j \in 1..2 |-> idForBook(probe.books[j])],
            !.errs = [j \in 1..2 |-> Thrown("add", ArrayText(<<>>), probe.books[j], Undef)]]
    /\ UNCHANGED <<dirExists, file, now, inv, opsLeft, shown, saved, ui>>

NextPair == identifyPair

SpecPair == InitPair /\ [][NextPair]_vars

-----------------------------------------------------------------------------
(* One add of any record, on a store that is absent or holds one entry     *)

ProbeReviews == {LeftOut, Str(<<>>), Str(<<"r">>)}

EntryBooks == {b \o Prop("review", r) : b \in ProbeBooks, r \in ProbeReviews}

\* add: (book) => ipcRenderer.invoke('bookmarks-add', book), any record.
addAny(i) ==
    /\ inv[i].pc = "idle"
    /\ opsLeft > 0
    /\ \E book \in EntryBooks : Start(i, "add", book, Undef, <<>>)

InitEntry ==
    /\ file \in {Absent, Stringify(StoredOne)}
    /\ dirExists = (file # Absent)
    /\ now = 1
    /\ inv = [i \in Slots |-> Idle]
    /\ opsLeft = 1
    /\ shown = NothingShown
    /\ probe = NoProbe
    /\ saved = NotSaved
    /\ ui = NoPage

NextEntry == \E i \in Slots : addAny(i) \/ StoreStep(i)

SpecEntry == InitEntry /\ [][NextEntry]_vars

-----------------------------------------------------------------------------
(* One caller's calls through the life of a bookmark, each awaited         *)

\* add(A), isBookmarked(K), update(K, {review: R}), remove(K), getAll(),
\* isBookmarked(K), with K the key of A.
Lifecycle ==
    LET call(op, book, id, updates) ==
            [op |-> op, book |-> book, id |-> id, updates |-> updates]
    IN << call("add", BookA, Undef, <<>>),
          call("check", <<>>, idForBook(BookA), <<>>),
          call("update", <<>>, idForBook(BookA), << <<"review", Str(<<"r">>)>> >>),
          call("remove", <<>>, idForBook(BookA), <<>>),
          call("get", <<>>, Undef, <<>>),
          call("check", <<>>, idForBook(BookA), <<>>) >>

\* The caller's next call, once the one before has settled.
nextCall(i) ==
    /\ \A j \in Slots : inv[j].pc = "idle"
    /\ opsLeft > 0
    /\ LET c == Lifecycle[Len(Lifecycle) - opsLeft + 1]
       IN Start(i, c.op, c.book, c.id, c.updates)

InitLife ==
    /\ file \in {Absent, EmptyText, ArrayText(<<>>)}
    /\ dirExists \in BOOLEAN
    /\ (file # Absent => dirExists)
    /\ now = 1
    /\ inv = [i \in Slots |-> Idle]
    /\ opsLeft = Len(Lifecycle)
    /\ shown = NothingShown
    /\ probe = NoProbe
    /\ saved = NotSaved
    /\ ui = NoPage

NextLife == \E i \in Slots : nextCall(i) \/ StoreStep(i)

SpecLife == InitLife /\ [][NextLife]_vars

-----------------------------------------------------------------------------
(* The pages: a card of the search page or of the home page, or the detail *)
(* page, of one book; its handlers call the store through slot 1 and await *)
(* each call.                                                              *)

MaxClicks == 2

\* A record with no catalog key whose author_name is a plain string.
BookS ==
    << <<"title", Str(<<"a">>)>>, <<"author_name", Str(<<"x", "y">>)>>,
       <<"cover_i", Num(1)>> >>

PageBooks == {BookA, BookB, BookS}

PageKinds == {"search", "home", "detail"}

PageFiles == {Absent, CorruptText, ArrayText(<<>>), Stringify(StoredOne)}

\* What the user typed into the review area.
ReviewTexts == { <<" ">>, <<" ", "r", " ">> }

RECURSIVE TrimStart(_)
TrimStart(s) == IF s # <<>> /\ Head(s) = " " THEN TrimStart(Tail(s)) ELSE s

RECURSIVE TrimEnd(_)
TrimEnd(s) ==
    IF s # <<>> /\ s[Len(s)] = " " THEN TrimEnd(SubSeq(s, 1, Len(s) - 1)) ELSE s

\* String.prototype.trim
Trim(s) == TrimEnd(TrimStart(s))

\* The id the page computes for its book: bookId of home.js and book.js,
\* idForBook(book) of search.js.
pageId(kind, book) ==
    CASE kind = "search" -> searchIdForBook(book)
      [] kind = "home" -> Or(homeIdForBook(book), Str(<<>>))
      [] OTHER -> detailIdForBook(book)

\* The record the page's handlers send to add.
payloadOf(kind, book) ==
    IF kind = "search" THEN searchPayload(book) ELSE pagePayload(book)

\* The record the save-review handler sends to add.
reviewPayload(book, reviewText) ==
    searchPayload(book) \o << <<"review", Str(reviewText)>>, <<"raw", book>> >>

\* home.js: new Set(list.map(b => b._id || b.key || idForBook(b))).has(bookId)
bookmarkedSetHas(list, id) ==
    \E n \in 1..Len(list) :
        Or(Or(Get(list[n], "_id"), Get(list[n], "key")), homeIdForBook(list[n])) = id

\* The page as loaded, before its first call: the detail page's book is the
\* JSON.parse of the selectedBook text; api tells whether getBookmarkAPI
\* found a bookmark API.
PageOf(kind, b, read, api) ==
    LET book == IF kind = "detail" THEN ToJson(b) ELSE b IN
    [ kind |-> kind, book |-> book, bookId |-> pageId(kind, book),
      marked |-> FALSE, isBookmarked |-> FALSE, read |-> read, api |-> api,
      h |-> "render", pc |-> "start", clicks |-> 0,
      last |-> "none", err |-> FALSE, before |-> FALSE, fileAt |-> Absent,
      markedAt |-> FALSE,
      reviewText |-> <<>> ]

InitPage ==
    /\ file \in PageFiles
    /\ dirExists = (file # Absent)
    /\ now = 1
    /\ inv = [i \in Slots |-> Idle]
    /\ opsLeft = 0
    /\ shown = NothingShown
    /\ probe = NoProbe
    /\ saved = NotSaved
    /\ ui \in {PageOf(kind, b, read, api) :
                    kind \in PageKinds, b \in PageBooks, read \in BOOLEAN,
                    api \in BOOLEAN}
    /\ (ui.kind # "home" => ui.api)

\* window.bookmarkAPI.<op>(...) with no other invocation in flight.
Invoke(op, book, id, updates) ==
    inv' = [inv EXCEPT ![1] =
                [Idle EXCEPT !.op = op, !.pc = "read", !.book = book, !.id = id,
                             !.updates = updates]]

\* The awaited promise has settled.
Settled == inv[1].pc \in {"done", "failed"}

\* The handler starts: what the store held at the click (history).
Clicked(h, pc, last) ==
    [ui EXCEPT !.h = h, !.pc = pc, !.last = last, !.clicks = @ + 1, !.err = FALSE,
               !.before = Some(file.list, ui.bookId),
               !.fileAt = file, !.markedAt = ui.marked]

\* The page's first call: isBookmarked(id) on the search page and the
\* detail page, getAll on the home page when it has a bookmark API.
renderBookmarkState ==
    /\ ui.h = "render" /\ ui.pc = "start"
    /\ IF ~ui.api
       THEN /\ ui' = [ui EXCEPT !.h = "none", !.pc = "idle"]
            /\ UNCHANGED inv
       ELSE /\ IF ui.kind = "home"
               THEN Invoke("get", <<>>, Undef, <<>>)
               ELSE Invoke("check", <<>>, ui.bookId, <<>>)
            /\ ui' = [ui EXCEPT !.pc = "await"]
    /\ UNCHANGED <<dirExists, file, now, opsLeft, shown, probe, saved>>

\* The button's class as rendered; on the home page also the card's
\* constant isBookmarked. A failed call leaves the class off.
rendered ==
    /\ ui.h = "render" /\ ui.pc = "await" /\ Settled
    /\ LET is == /\ inv[1].pc = "done"
                 /\ IF ui.kind = "home"
                    THEN bookmarkedSetHas(inv[1].res, ui.bookId)
                    ELSE inv[1].val
       IN ui' = [ui EXCEPT !.h = "none", !.pc = "idle", !.marked = is,
                           !.isBookmarked = is]
    /\ inv' = [inv EXCEPT ![1] = Idle]
    /\ UNCHANGED <<dirExists, file, now, opsLeft, shown, probe, saved>>

\* A catch that does not revert.
RejectsNoRevert(revert) ==
    /\ ui' = [ui EXCEPT !.h = "none", !.pc = "idle", !.err = TRUE]
    /\ inv' = [inv EXCEPT ![1] = Idle]

\* A rejected call ends the handler: the home page reverts its optimistic
\* toggle, the detail page logs, the search page's promise rejects.
Rejects(revert) ==
    /\ ui' = [ui EXCEPT !.h = "none", !.pc = "idle", !.err = TRUE,
                        !.marked = IF revert /\ ui.kind = "home" THEN ~@ ELSE @]
    /\ inv' = [inv EXCEPT ![1] = Idle]

\* Click on the bookmark button: the home page toggles the class first,
\* and returns there when it has no bookmark API.
bookmarkBtnClick ==
    /\ ui.h = "none" /\ ui.clicks < MaxClicks
    /\ IF ui.kind = "search" /\ ~Truthy(ui.bookId)
       THEN /\ ui' = Clicked("none", "idle", "toggle")
            /\ UNCHANGED inv
       ELSE IF ~ui.api
       THEN /\ ui' = [Clicked("none", "idle", "toggle") EXCEPT !.marked = ~@]
            /\ UNCHANGED inv
       ELSE /\ Invoke("check", <<>>, ui.bookId, <<>>)
            /\ ui' = [Clicked("toggle", "check", "toggle") EXCEPT
                        !.marked = IF ui.kind = "home" THEN ~@ ELSE @]
    /\ UNCHANGED <<dirExists, file, now, opsLeft, shown, probe, saved>>

\* currently = await isBookmarked(id): remove(id) or add({...}).
bookmarkBtnChecked ==
    /\ ui.h = "toggle" /\ ui.pc = "check" /\ Settled
    /\ IF inv[1].pc = "failed" THEN Rejects(TRUE)
       ELSE IF inv[1].val
       THEN /\ Invoke("remove", <<>>, ui.bookId, <<>>)
            /\ ui' = [ui EXCEPT !.pc = "remove"]
       ELSE /\ Invoke("add", payloadOf(ui.kind, ui.book), Undef, <<>>)
            /\ ui' = [ui EXCEPT !.pc = "add"]
    /\ UNCHANGED <<dirExists, file, now, opsLeft, shown, probe, saved>>

\* classList.remove('bookmarked') after remove, classList.add after add.
bookmarkBtnDone ==
    /\ ui.h = "toggle" /\ ui.pc \in {"remove", "add"} /\ Settled
    /\ IF inv[1].pc = "failed" THEN Rejects(TRUE)
       ELSE /\ ui' = [ui EXCEPT !.h = "none", !.pc = "idle", !.marked = (ui.pc = "add")]
            /\ inv' = [inv EXCEPT ![1] = Idle]
    /\ UNCHANGED <<dirExists, file, now, opsLeft, shown, probe, saved>>

\* Click on the read button: the read flag flips; marking as read goes on
\* to the auto-bookmark when the button's class (search, detail) or the
\* card's constant isBookmarked (home) says the book is not bookmarked.
readBtnClick ==
    /\ ui.h = "none" /\ ui.clicks < MaxClicks
    /\ LET auto == /\ ~ui.read
                   /\ ui.api
                   /\ IF ui.kind = "home" THEN ~ui.isBookmarked ELSE ~ui.marked
       IN /\ IF auto THEN Invoke("check", <<>>, ui.bookId, <<>>) ELSE UNCHANGED inv
          /\ ui' = [Clicked(IF auto THEN "read" ELSE "none",
                            IF auto THEN "check" ELSE "idle",
                            IF ui.read THEN "unread" ELSE "read")
                        EXCEPT !.read = ~@]
    /\ UNCHANGED <<dirExists, file, now, opsLeft, shown, probe, saved>>

\* currentlyBookmarked = await isBookmarked(id): add({...}) when false; an
\* error is caught and logged.
readBtnChecked ==
    /\ ui.h = "read" /\ ui.pc = "check" /\ Settled
    /\ IF inv[1].pc = "failed" THEN Rejects(FALSE)
       ELSE IF inv[1].val
       THEN /\ ui' = [ui EXCEPT !.h = "none", !.pc = "idle"]
            /\ inv' = [inv EXCEPT ![1] = Idle]
       ELSE /\ Invoke("add", payloadOf(ui.kind, ui.book), Undef, <<>>)
            /\ ui' = [ui EXCEPT !.pc = "add"]
    /\ UNCHANGED <<dirExists, file, now, opsLeft, shown, probe, saved>>

readBtnDone ==
    /\ ui.h = "read" /\ ui.pc = "add" /\ Settled
    /\ IF inv[1].pc = "failed" THEN Rejects(FALSE)
       ELSE /\ ui' = [ui EXCEPT !.h = "none", !.pc = "idle", !.marked = TRUE]
            /\ inv' = [inv EXCEPT ![1] = Idle]
    /\ UNCHANGED <<dirExists, file, now, opsLeft, shown, probe, saved>>

\* Click on Save of the detail page: reviewText = reviewArea.value.trim().
saveReviewBtnClick ==
    /\ ui.kind = "detail"
    /\ ui.h = "none" /\ ui.clicks < MaxClicks
    /\ \E text \in ReviewTexts :
          ui' = [Clicked("review", "check", "review") EXCEPT !.reviewText = Trim(text)]
    /\ Invoke("check", <<>>, ui.bookId, <<>>)
    /\ UNCHANGED <<dirExists, file, now, opsLeft, shown, probe, saved>>

\* bookmarked = await isBookmarked(bookId): update(bookId, {review}) or
\* add({..., review, raw}).
saveReviewBtnChecked ==
    /\ ui.h = "review" /\ ui.pc = "check" /\ Settled
    /\ IF inv[1].pc = "failed" THEN Rejects(FALSE)
       ELSE IF inv[1].val
       THEN /\ Invoke("update", <<>>, ui.bookId, << <<"review", Str(ui.reviewText)>> >>)
            /\ ui' = [ui EXCEPT !.pc = "update"]
       ELSE /\ Invoke("add", reviewPayload(ui.book, ui.reviewText), Undef, <<>>)
            /\ ui' = [ui EXCEPT !.pc = "add"]
    /\ UNCHANGED <<dirExists, file, now, opsLeft, shown, probe, saved>>

saveReviewBtnDone ==
    /\ ui.h = "review" /\ ui.pc \in {"update", "add"} /\ Settled
    /\ IF inv[1].pc = "failed" THEN Rejects(FALSE)
       ELSE /\ ui' = [ui EXCEPT !.h = "none", !.pc = "idle",
                                !.marked = IF ui.pc = "add" THEN TRUE ELSE @]
            /\ inv' = [inv EXCEPT ![1] = Idle]
    /\ UNCHANGED <<dirExists, file, now, opsLeft, shown, probe, saved>>

NextPage ==
    \/ renderBookmarkState \/ rendered
    \/ bookmarkBtnClick \/ bookmarkBtnChecked \/ bookmarkBtnDone
    \/ readBtnClick \/ readBtnChecked \/ readBtnDone
    \/ saveReviewBtnClick \/ saveReviewBtnChecked \/ saveReviewBtnDone
    \/ readFile(1) \/ bootMkdir(1) \/ bootOpen(1) \/ bootWrite(1)
    \/ handle(1)
    \/ saveOpen(1) \/ saveWrite(1)

\* One page, one handler at a time, each store call awaited.
SpecPage == InitPage /\ [][NextPage]_vars

-----------------------------------------------------------------------------
(* The detail page with its handlers interleaved: the mark-as-read handler *)
(* calls through slot 1; the save-review handler and the bookmark handler  *)
(* call through slot 2, one of the two at a time.                          *)

\* The detail page once loaded, its button as setInitialBookmarkState left
\* it.
DetailOf(b, read, is) ==
    [ kind |-> "detail", book |-> ToJson(b), bookId |-> detailIdForBook(ToJson(b)),
      marked |-> is, read |-> read, api |-> TRUE,
      r |-> "idle", h |-> "none", pc |-> "idle", clicks |-> 0,
      reviewText |-> <<>> ]

InitDetail ==
    /\ file \in {ArrayText(<<>>), Stringify(StoredOne)}
    /\ dirExists = TRUE
    /\ now = 1
    /\ inv = [i \in Slots |-> Idle]
    /\ opsLeft = 0
    /\ shown = NothingShown
    /\ probe = NoProbe
    /\ saved = NotSaved
    /\ \E b \in PageBooks :
          ui = DetailOf(b, FALSE, Some(file.list, detailIdForBook(ToJson(b))))

\* ipc.<op>(...) through the slot, other invocations in flight or not.
InvokeOn(i, op, book, id, updates) ==
    inv' = [inv EXCEPT ![i] =
                [Idle EXCEPT !.op = op, !.pc = "read", !.book = book, !.id = id,
                             !.updates = updates,
                             !.conc = \E j \in Slots \ {i} : InFlight(j)]]

SettledOn(i) == inv[i].pc \in {"done", "failed"}

\* markReadBtn click: the flag flips; marking as read with the button not
\* 'bookmarked' goes on to isBookmarked(bookId).
markReadBtnClick ==
    /\ ui.r = "idle" /\ ui.clicks < MaxClicks
    /\ IF ~ui.read /\ ~ui.marked
       THEN /\ InvokeOn(1, "check", <<>>, ui.bookId, <<>>)
            /\ ui' = [ui EXCEPT !.read = TRUE, !.r = "check", !.clicks = @ + 1]
       ELSE /\ ui' = [ui EXCEPT !.read = ~@, !.clicks = @ + 1]
            /\ UNCHANGED inv
    /\ UNCHANGED <<dirExists, file, now, opsLeft, shown, probe, saved>>

\* currentlyBookmarked = await ipc.isBookmarked(bookId): add when false.
markReadBtnChecked ==
    /\ ui.r = "check" /\ SettledOn(1)
    /\ IF inv[1].pc = "done" /\ ~inv[1].val
       THEN /\ InvokeOn(1, "add", pagePayload(ui.book), Undef, <<>>)
            /\ ui' = [ui EXCEPT !.r = "add"]
       ELSE /\ inv' = [inv EXCEPT ![1] = Idle]
            /\ ui' = [ui EXCEPT !.r = "idle"]
    /\ UNCHANGED <<dirExists, file, now, opsLeft, shown, probe, saved>>

\* The add has settled: the button shows 'bookmarked' unless it failed.
markReadBtnDone ==
    /\ ui.r = "add" /\ SettledOn(1)
    /\ ui' = [ui EXCEPT !.r = "idle",
                        !.marked = IF inv[1].pc = "done" THEN TRUE ELSE @]
    /\ inv' = [inv EXCEPT ![1] = Idle]
    /\ UNCHANGED <<dirExists, file, now, opsLeft, shown, probe, saved>>

\* saveReviewBtn click and bookmarkBtn click: both start with
\* isBookmarked(bookId).
detailClick ==
    /\ ui.h = "none" /\ ui.clicks < MaxClicks
    /\ InvokeOn(2, "check", <<>>, ui.bookId, <<>>)
    /\ \/ \E text \in ReviewTexts :
            ui' = [ui EXCEPT !.h = "review", !.pc = "check", !.clicks = @ + 1,
                             !.reviewText = Trim(text)]
       \/ ui' = [ui EXCEPT !.h = "toggle", !.pc = "check", !.clicks = @ + 1]
    /\ UNCHANGED <<dirExists, file, now, opsLeft, shown, probe, saved>>

\* The answer of isBookmarked: update or add for the review, remove or add
\* for the bookmark button.
detailChecked ==
    /\ ui.h # "none" /\ ui.pc = "check" /\ SettledOn(2)
    /\ IF inv[2].pc = "failed"
       THEN /\ inv' = [inv EXCEPT ![2] = Idle]
            /\ ui' = [ui EXCEPT !.h = "none", !.pc = "idle"]
       ELSE IF inv[2].val
       THEN /\ IF ui.h = "review"
               THEN InvokeOn(2, "update", <<>>, ui.bookId,
                             << <<"review", Str(ui.reviewText)>> >>)
               ELSE InvokeOn(2, "remove", <<>>, ui.bookId, <<>>)
            /\ ui' = [ui EXCEPT !.pc = IF ui.h = "review" THEN "update" ELSE "remove"]
       ELSE /\ IF ui.h = "review"
               THEN InvokeOn(2, "add", reviewPayload(ui.book, ui.reviewText), Undef, <<>>)
               ELSE InvokeOn(2, "add", pagePayload(ui.book), Undef, <<>>)
            /\ ui' = [ui EXCEPT !.pc = "add"]
    /\ UNCHANGED <<dirExists, file, now, opsLeft, shown, probe, saved>>

\* The second call has settled: the button follows an add and a remove.
detailDone ==
    /\ ui.h # "none" /\ ui.pc \in {"update", "add", "remove"} /\ SettledOn(2)
    /\ ui' = [ui EXCEPT !.h = "none", !.pc = "idle",
                        !.marked = IF inv[2].pc = "failed" \/ ui.pc = "update" THEN @
                                   ELSE ui.pc = "add"]
    /\ inv' = [inv EXCEPT ![2] = Idle]
    /\ UNCHANGED <<dirExists, file, now, opsLeft, shown, probe, saved>>

NextDetail ==
    \/ markReadBtnClick \/ markReadBtnChecked \/ markReadBtnDone
    \/ detailClick \/ detailChecked \/ detailDone
    \/ \E i \in Slots : readFile(i) \/ handle(i) \/ saveOpen(i) \/ saveWrite(i)

SpecDetail == InitDetail /\ [][NextDetail]_vars

-----------------------------------------------------------------------------
(* Claims about the identity functions (SpecId)                            *)

\* A part of the composite id as the contract words it: the text of a title
\* or of a cover reference, empty when there is none (left out, null, '',
\* or the number 0, which names no cover).
PartOrEmpty(v) ==
    CASE v.t = "string" -> v.s
      [] v.t = "number" /\ v.n # 0 -> Decimal(v.n)
      [] OTHER -> <<>>

\* The first author name of a list of names, empty when there is none.
FirstAuthorOrEmpty(v) == IF v.t = "array" /\ v.a # <<>> THEN v.a[1] ELSE <<>>

ContractId(book) ==
    IF book = NoBook THEN Null
    ELSE IF Get(book, "key").t = "string" /\ Get(book, "key").s # <<>>
    THEN Get(book, "key")
    ELSE Str(PartOrEmpty(Get(book, "title")) \o <<"|", "|">>
             \o FirstAuthorOrEmpty(Get(book, "author_name")) \o <<"|", "|">>
             \o PartOrEmpty(Get(book, "cover_i")))

\* The record's author names are a list, or there are none.
AuthorsListed(book) == Get(book, "author_name").t \in {"undefined", "null", "array"}

\* C5: for a record whose author names are a list (or missing), idForBook
\* returns null for the absent record, the catalog key when the record has a
\* non-empty one whatever its title, author and cover, and otherwise
\* title || first author name || cover reference joined by '||', each
\* missing part empty.
C5_IdentityContract ==
    ("store" \in probe.done /\ AuthorsListed(probe.book))
        => probe.store.id = ContractId(probe.book)

\* C5 witness: a key-less record with a title, two authors and a cover was
\* identified by its composite.
C5_Witness ==
    /\ "store" \in probe.done
    /\ Get(probe.book, "key") = Undef
    /\ Get(probe.book, "title") = Str(<<"a">>)
    /\ Get(probe.book, "author_name") = Arr(<< <<"x", "y">>, <<"z">> >>)
    /\ Get(probe.book, "cover_i") = Num(12)
    /\ probe.store.id = Str(<<"a", "|", "|", "x", "y", "|", "|", "1", "2">>)

\* C6: the id each page computes for a record is the _id the store gives the
\* record that page sends to add.
C6_CallersAgree ==
    \A page \in {"home", "search", "detail"} :
        page \in probe.done => probe[page].id = probe[page].via

-----------------------------------------------------------------------------
(* Claims about the store                                                  *)

IdA == idForBook(BookA)

IdB == idForBook(BookB)

UniqueIds(list) ==
    \A m, n \in 1..Len(list) :
        Get(list[m], "_id") = Get(list[n], "_id") => m = n

Mutating == {"add", "remove", "update"}

\* C1: two add calls for books with different ids, one dispatched while the
\* other is in progress, both leave their entry in the persisted collection.
C1_ConcurrentAddsBothKept ==
    \A i, j \in Slots :
        ( /\ i # j
          /\ inv[i].op = "add" /\ inv[i].pc = "done"
          /\ inv[j].op = "add" /\ inv[j].pc = "done"
          /\ inv[j].conc
          /\ idForBook(inv[i].book) # idForBook(inv[j].book) )
        => /\ file.k = "array"
           /\ Some(file.list, idForBook(inv[i].book))
           /\ Some(file.list, idForBook(inv[j].book))

\* C2: after any sequence of add calls on a store that began absent or
\* empty, no two entries of the collection have the same id; and an add
\* leaves its entry at the front, the only one of its id, beside exactly the
\* entries of other ids the collection held.
C2_UpsertUnique ==
    /\ file.k = "array" => UniqueIds(file.list)
    /\ \A i \in Slots :
        inv[i].pc = "done" =>
            LET id == idForBook(inv[i].book)
                res == inv[i].res
            IN /\ file = Stringify(res)
               /\ Get(res[1], "_id") = id
               /\ \A n \in 2..Len(res) : Get(res[n], "_id") # id
               /\ Len(res) = Len(inv[i].pre) + (IF Some(inv[i].pre, id) THEN 0 ELSE 1)

\* C2 witness: the key-less record was added to a collection that held an
\* entry of its composite id already, and the collection holds one entry.
C2_Witness ==
    \E i \in Slots :
        /\ inv[i].pc = "done"
        /\ inv[i].book = BookB
        /\ Some(inv[i].pre, IdB)
        /\ file.k = "array"
        /\ Len(file.list) = 1
        /\ Get(file.list[1], "_id") = IdB

\* C3: no two entries of the persisted collection have the same id.
C3_IdsUnique == file.k = "array" => UniqueIds(file.list)

\* C4: the entry a successful update has updated still has the id the
\* update was called with.
C4_IdImmutable ==
    \A i \in Slots :
        (inv[i].op = "update" /\ inv[i].pc = "done")
            => Get(inv[i].res[1], "_id") = inv[i].id
\* C7: with each operation awaited before the next, the entry a successful
\* add or update touched is at index 0 of the persisted collection and every
\* other entry comes after it (add: the entry of the record's id; update:
\* the entry that had the id, with the fields the update did not name as
\* they were), and getAll returns the collection in the persisted order.
C7_RecencyOrder ==
    \A i \in Slots :
        inv[i].pc = "done" =>
            LET c == inv[i]
                idx == FindIndex(c.pre, c.id)
            IN /\ c.op \in {"add", "update"} =>
                    /\ file = Stringify(c.res)
                    /\ Len(c.res) >= 1
               /\ c.op = "add" =>
                    /\ Get(c.res[1], "_id") = idForBook(c.book)
                    /\ Get(c.res[1], "raw") = c.book
                    /\ \A n \in 2..Len(c.res) :
                        /\ Get(c.res[n], "_id") # idForBook(c.book)
                        /\ \E m \in 1..Len(c.pre) : c.res[n] = c.pre[m]
               /\ c.op = "update" =>
                    /\ \A f \in Keys(c.pre[idx]) \ (Keys(c.updates) \cup {"updatedAt"}) :
                        Get(c.res[1], f) = Get(c.pre[idx], f)
                    /\ Len(c.res) = Len(c.pre)
                    /\ \A n \in 2..Len(c.res) :
                        \E m \in 1..Len(c.pre) : m # idx /\ c.res[n] = c.pre[m]
               /\ (c.op = "get" /\ file.k = "array") => c.res = file.list

\* C7 witness: update of A's id on the collection [B, A] has put A first.
C7_Witness ==
    \E i \in Slots :
        /\ inv[i].pc = "done"
        /\ inv[i].op = "update"
        /\ IdsOf(inv[i].pre) = <<IdB, IdA>>
        /\ IdsOf(inv[i].res) = <<IdA, IdB>>
        /\ file.k = "array"
        /\ IdsOf(file.list) = <<IdA, IdB>>

\* C8: the list page shows its rows in the order of the collection getAll
\* returned.
C8_RowsInCollectionOrder == shown.rendered => shown.rows = shown.src

\* C9: getAll and isBookmarked perform no write of the persisted document.
C9_ReadersNeverWrite ==
    \A i \in Slots :
        inv[i].op \in {"get", "check"} => inv[i].nboot + inv[i].nsave = 0

\* C9 amended: getAll and isBookmarked never save a collection; they perform
\* no write when the document exists when they read it (whatever it holds),
\* and one write, of the empty document '[]', when it does not exist.
C9_ReadersOnlyBootstrap ==
    \A i \in Slots :
        inv[i].op \in {"get", "check"} =>
            /\ inv[i].nsave = 0
            /\ inv[i].pc \notin {"saveOpen", "saveWrite"}
            /\ inv[i].pc \in {"done", "failed"} =>
                    inv[i].nboot = (IF inv[i].enoent THEN 1 ELSE 0)

\* C9 witness: isBookmarked has returned on a store whose document did not
\* exist, after the one write of the bootstrap.
C9_Witness ==
    \E i \in Slots :
        /\ inv[i].op = "check"
        /\ inv[i].pc = "done"
        /\ inv[i].enoent
        /\ inv[i].nboot = 1
        /\ inv[i].nsave = 0

\* C10: a successful add, remove or update has performed exactly one write
\* of the persisted document.
C10_OneWritePerMutation ==
    \A i \in Slots :
        (inv[i].op \in Mutating /\ inv[i].pc = "done")
            => inv[i].nboot + inv[i].nsave = 1

\* C10 amended: a successful add, remove or update has performed exactly
\* one write of the full collection, and before it one write of the empty
\* document '[]' when the document did not exist when it was read (and no
\* other write).
C10_OneSavePerMutation ==
    \A i \in Slots :
        (inv[i].op \in Mutating /\ inv[i].pc = "done") =>
            /\ inv[i].nsave = 1
            /\ inv[i].nboot = (IF inv[i].enoent THEN 1 ELSE 0)

\* C10 witness: a remove has returned on a store whose document did not
\* exist, after the bootstrap's write and its own.
C10_Witness ==
    \E i \in Slots :
        /\ inv[i].op = "remove"
        /\ inv[i].pc = "done"
        /\ inv[i].enoent
        /\ inv[i].nboot = 1
        /\ inv[i].nsave = 1

-----------------------------------------------------------------------------
(* Claims about the errors of the store                                    *)

\* The collection a document stands for: an absent document and a
\* zero-length one stand for the empty collection, as '[]' does.
Content(f) == IF f.k \in {"absent", "empty"} THEN ArrayText(<<>>) ELSE f

\* The record of the invocation has no canonical id.
NoIdAdd(c) == c.op = "add" /\ ~Truthy(idForBook(c.book))

\* C11: an add of a record with no canonical id (the absent record), once
\* the document is loaded, fails with 'Invalid book data'; it never returns
\* a collection and never saves, and no step of it changes the content of
\* the collection.
C11_InvalidAddFails ==
    [][\A i \in Slots :
        NoIdAdd(inv[i]) =>
            /\ Content(file') = Content(file)
            /\ inv'[i].pc \notin {"done", "saveOpen", "saveWrite"}
            /\ inv[i].pc = "loaded" =>
                    /\ inv'[i].pc = "failed"
                    /\ ParseFails(inv[i].doc) \/ inv'[i].err = "Invalid book data"]_vars

\* C11 witness: add(null) has failed with 'Invalid book data' on a store
\* that holds an entry, which is still there.
C11_Witness ==
    \E i \in Slots :
        /\ NoIdAdd(inv[i])
        /\ inv[i].pc = "failed"
        /\ inv[i].err = "Invalid book data"
        /\ file = Stringify(StoredOne)

\* An update whose load returned a collection, past the handler's test.
UpdateHandled(c) ==
    /\ c.op = "update"
    /\ c.pc \in {"failed", "saveOpen", "saveWrite", "done"}
    /\ Parse(c.doc).k = "array"

\* C12: an update that loaded a collection fails, with 'Bookmark not
\* found', exactly when no entry of the loaded collection has the id; when
\* it has failed the document holds the collection that was loaded.
C12_NotFoundIffAbsent ==
    \A i \in Slots :
        UpdateHandled(inv[i]) =>
            /\ (inv[i].pc = "failed") <=> ~Some(Parse(inv[i].doc).list, inv[i].id)
            /\ inv[i].pc = "failed" =>
                    /\ inv[i].err = "Bookmark not found"
                    /\ inv[i].nsave = 0
                    /\ Content(file) = Parse(inv[i].doc)

\* C12 witness: update of A's id has failed with 'Bookmark not found' on a
\* collection that holds another entry, and the collection is as it was.
C12_Witness ==
    \E i \in Slots :
        /\ UpdateHandled(inv[i])
        /\ inv[i].pc = "failed"
        /\ inv[i].err = "Bookmark not found"
        /\ inv[i].doc.list # <<>>
        /\ file = inv[i].doc

-----------------------------------------------------------------------------
(* Claims about update, remove and isBookmarked                            *)

\* C13: a successful update returns, and saves, the loaded collection with
\* the entry of the id moved to the front, the others in their order; the
\* moved entry has the supplied fields at their supplied values, updatedAt at
\* the current time whatever the supplied fields say, and every other field
\* as it was.
C13_UpdateMerges ==
    \A i \in Slots :
        (inv[i].op = "update" /\ inv[i].pc = "done") =>
            LET c == inv[i]
                idx == FindIndex(c.pre, c.id)
                was == c.pre[idx]
                is == c.res[1]
            IN /\ idx > 0
               /\ Keys(is) = Keys(was) \cup Keys(c.updates) \cup {"updatedAt"}
               /\ \A f \in Keys(c.updates) \ {"updatedAt"} : Get(is, f) = Get(c.updates, f)
               /\ \A f \in Keys(was) \ (Keys(c.updates) \cup {"updatedAt"}) :
                    Get(is, f) = Get(was, f)
               /\ Get(is, "updatedAt") = Iso(now)
               /\ Tail(c.res) = SubSeq(c.pre, 1, idx - 1) \o SubSeq(c.pre, idx + 1, Len(c.pre))
               /\ file = Stringify(c.res)

\* C13 witness: update of the second entry of two with a review and an
\* updatedAt of the caller's; the entry is first, has the review, and its
\* updatedAt is the clock's.
C13_Witness ==
    \E i \in Slots :
        /\ inv[i].op = "update" /\ inv[i].pc = "done"
        /\ Get(inv[i].updates, "updatedAt") = Elsewhen
        /\ FindIndex(inv[i].pre, inv[i].id) = 2
        /\ Get(inv[i].res[1], "_id") = inv[i].id
        /\ Get(inv[i].res[1], "review") = Str(<<"r">>)
        /\ Get(inv[i].res[1], "updatedAt") = Iso(now)
        /\ Get(inv[i].res[1], "updatedAt") # Elsewhen

\* C14: after a successful update the entry's addedAt is what it was before
\* the call, whatever fields the update supplied.
C14_AddedAtKept ==
    \A i \in Slots :
        (inv[i].op = "update" /\ inv[i].pc = "done") =>
            Get(inv[i].res[1], "addedAt")
                = Get(inv[i].pre[FindIndex(inv[i].pre, inv[i].id)], "addedAt")

\* C15: a completed remove returns the loaded collection without the entry
\* of the id: one entry fewer when an entry had the id, and the same
\* collection when none had.
C15_RemoveAtMostOne ==
    \A i \in Slots :
        (inv[i].op = "remove" /\ inv[i].pc = "done") =>
            /\ ~Some(inv[i].res, inv[i].id)
            /\ Len(inv[i].res) =
                    Len(inv[i].pre) - (IF Some(inv[i].pre, inv[i].id) THEN 1 ELSE 0)
            /\ ~Some(inv[i].pre, inv[i].id) => inv[i].res = inv[i].pre

\* The collection has an entry with the id.
HasEntry(list, id) == \E n \in 1..Len(list) : Get(list[n], "_id") = id

\* C16: with each operation awaited, isBookmarked(id) returns true exactly
\* when the persisted collection has an entry with the id; the collection
\* has it when an add of a record with that id has completed, and has it
\* not when remove(id) has completed.
C16_CheckTellsMembership ==
    \A i \in Slots :
        inv[i].pc = "done" =>
            /\ inv[i].op = "check" =>
                    (inv[i].val <=> HasEntry(Content(file).list, inv[i].id))
            /\ inv[i].op = "add" =>
                    HasEntry(Content(file).list, idForBook(inv[i].book))
            /\ inv[i].op = "remove" => ~HasEntry(Content(file).list, inv[i].id)

\* C16 witness: isBookmarked has returned true for the id of an entry that
\* an add of this run made.
C16_Witness ==
    \E i \in Slots :
        /\ inv[i].op = "check" /\ inv[i].pc = "done"
        /\ inv[i].val
        /\ file.k = "array"
        /\ \E n \in 1..Len(file.list) :
            /\ Get(file.list[n], "_id") = inv[i].id
            /\ Get(file.list[n], "addedAt") \in {Iso(1), Iso(2)}

\* C16 witness of the other case: isBookmarked has returned false on a
\* collection that holds an entry of another id.
C16_WitnessFalse ==
    \E i \in Slots :
        /\ inv[i].op = "check" /\ inv[i].pc = "done"
        /\ ~inv[i].val
        /\ file.k = "array"
        /\ file.list # <<>>

-----------------------------------------------------------------------------
(* Claims about the load                                                   *)

\* The invocation found no document and its load has returned.
Bootstrapped(c) == c.enoent /\ c.pc \notin {"bootMkdir", "bootOpen", "bootWrite"}

\* C17: when the document does not exist the load makes the directory and
\* the document '[]' and returns the empty collection with no error: the
\* handler runs on [] (getAll returns it), and until the handler saves, the
\* document is '[]'.
C17_Bootstrap ==
    \A i \in Slots :
        Bootstrapped(inv[i]) =>
            /\ dirExists
            /\ inv[i].nboot = 1
            /\ inv[i].doc = ArrayText(<<>>)
            /\ inv[i].pc \in {"loaded", "failed", "saveOpen"} => file = ArrayText(<<>>)
            /\ inv[i].pc = "failed" => inv[i].err \in {"Invalid book data", "Bookmark not found"}
            /\ inv[i].pc \in {"saveOpen", "saveWrite", "done"} => inv[i].pre = <<>>
            /\ inv[i].op = "get" =>
                    /\ inv[i].pc \in {"loaded", "done"}
                    /\ inv[i].pc = "done" => inv[i].res = <<>> /\ file = ArrayText(<<>>)

\* C17 witness: getAll has returned [] on a store that had no document, and
\* the document is '[]'.
C17_Witness ==
    \E i \in Slots :
        /\ inv[i].op = "get" /\ inv[i].pc = "done"
        /\ inv[i].enoent
        /\ inv[i].res = <<>>
        /\ dirExists
        /\ file = ArrayText(<<>>)

\* C18: a document JSON.parse rejects stays as it is, and every operation
\* that loaded it fails with the SyntaxError: none returns a value, none
\* writes.
C18_CorruptSurfaced ==
    [][/\ file = CorruptText => file' = CorruptText
       /\ \A i \in Slots :
            inv'[i].doc = CorruptText =>
                /\ inv'[i].pc \in {"loaded", "failed"}
                /\ inv'[i].pc = "failed" => inv'[i].err = "SyntaxError"
                /\ inv'[i].nboot = 0 /\ inv'[i].nsave = 0]_vars

\* C18 witness: after a first operation on the unparsable document, a
\* second one (isBookmarked) has failed with the SyntaxError too, and the
\* document is as it was.
C18_Witness ==
    \E i \in Slots :
        /\ inv[i].op = "check" /\ inv[i].pc = "failed"
        /\ inv[i].err = "SyntaxError"
        /\ opsLeft = 0
        /\ file = CorruptText

\* C19: an operation that loaded a document whose outermost JSON value is
\* no array fails: it returns no value to its caller.
C19_NonArrayRejected ==
    \A i \in Slots : inv[i].doc = NonArrayText => inv[i].pc # "done"

\* C20: while the document cannot be read (for a reason other than its
\* absence), an operation's read fails it at once with the error of the
\* read; the operation does nothing after that but hand the error to its
\* caller, and nothing makes a directory, creates or writes the document.
C20_UnreadableFails ==
    [][file = Unreadable =>
        /\ file' = file
        /\ dirExists' = dirExists
        /\ \A i \in Slots :
            /\ inv[i].pc = "read" =>
                    (inv'[i] = inv[i]
                        \/ inv'[i] = [inv[i] EXCEPT !.pc = "failed", !.err = "EACCES"])
            /\ inv[i].pc = "failed" => inv'[i] \in {inv[i], Idle}
            /\ inv'[i].pc \in {"idle", "read", "failed"}
            /\ inv'[i].nboot = 0 /\ inv'[i].nsave = 0]_vars

\* C20 witness: an add on the unreadable document has failed with the error
\* of the read.
C20_Witness ==
    \E i \in Slots :
        /\ inv[i].op = "add" /\ inv[i].pc = "failed"
        /\ inv[i].err = "EACCES"
        /\ file = Unreadable
        /\ inv[i].nboot = 0 /\ inv[i].nsave = 0

-----------------------------------------------------------------------------
(* Claims about the document and the order of operations                   *)

\* C21: a getAll that follows a save, with no operation in between, returns
\* the collection that was saved, equal to it field for field, raw included.
C21_RoundTrip ==
    \A i \in Slots :
        (inv[i].op = "get" /\ inv[i].pc = "done" /\ saved.set)
            => inv[i].res = saved.list

\* C22: at the step by which add, remove or update returns collection X,
\* the document holds X as written by the save.
C22_WrittenBeforeReturn ==
    [][\A i \in Slots :
        (inv[i].op \in Mutating /\ inv[i].pc # "done" /\ inv'[i].pc = "done")
            => file' = Stringify(inv'[i].res)]_vars

\* C23: with each operation awaited before the next is issued, an operation
\* loads the collection the latest completed add, remove or update saved:
\* getAll returns it and isBookmarked answers for it.
C23_ProgramOrder ==
    \A i \in Slots :
        saved.set =>
            /\ inv[i].pc = "loaded" => inv[i].doc = Stringify(saved.list)
            /\ (inv[i].op = "get" /\ inv[i].pc = "done")
                    => ArrayText(inv[i].res) = Stringify(saved.list)
            /\ (inv[i].op = "check" /\ inv[i].pc = "done")
                    => (inv[i].val <=> HasEntry(saved.list, inv[i].id))

\* C23 witness: getAll has returned the entries an earlier operation of the
\* run saved.
C23_Witness ==
    \E i \in Slots :
        /\ inv[i].op = "get" /\ inv[i].pc = "done"
        /\ saved.set
        /\ saved.list # <<>>
        /\ IdsOf(inv[i].res) = IdsOf(saved.list)

\* C24: a getAll that ran while an add, remove or update was in progress
\* returns the collection that mutation loaded or the one it saves.
C24_ReadSeesBeforeOrAfter ==
    \A i, j \in Slots :
        ( /\ i # j
          /\ inv[i].op = "get" /\ inv[i].pc = "done"
          /\ inv[j].op \in Mutating /\ inv[j].pc \in {"saveOpen", "saveWrite", "done"}
          /\ inv[i].conc \/ inv[j].conc )
        => ArrayText(inv[i].res) \in {Stringify(inv[j].pre), Stringify(inv[j].res)}

-----------------------------------------------------------------------------
(* Claims about the entry add constructs (SpecEntry)                       *)

\* A field of the record as add copies it: the value, or the default when
\* the record has none (left out, undefined, null, '', or the number 0).
OrDefault(v, d) == IF v \in {Undef, Null, Str(<<>>), Num(0)} THEN d ELSE v

\* C25: a successful add returns, and saves, a collection whose first entry
\* is newly made of the record: _id its canonical id; title, author_name,
\* cover_i and key copied, with '', [], null and null where the record has
\* none; review the record's, or ''; addedAt the current time; raw the
\* record itself.
C25_AddConstructsEntry ==
    \A i \in Slots :
        (inv[i].op = "add" /\ inv[i].pc = "done") =>
            LET b == inv[i].book IN
            /\ inv[i].res[1] =
                << <<"_id", idForBook(b)>>,
                   <<"title", OrDefault(Get(b, "title"), Str(<<>>))>>,
                   <<"author_name", OrDefault(Get(b, "author_name"), Arr(<<>>))>>,
                   <<"cover_i", OrDefault(Get(b, "cover_i"), Null)>>,
                   <<"key", OrDefault(Get(b, "key"), Null)>>,
                   <<"review", OrDefault(Get(b, "review"), Str(<<>>))>>,
                   <<"addedAt", Iso(now)>>,
                   <<"raw", b>> >>
            /\ file = Stringify(inv[i].res)

\* C25 witness: a record with a title and a review and nothing else was
\* added in front of the entry the store held.
C25_Witness ==
    \E i \in Slots :
        /\ inv[i].op = "add" /\ inv[i].pc = "done"
        /\ inv[i].book = << <<"title", Str(<<"a">>)>>, <<"review", Str(<<"r">>)>> >>
        /\ Len(inv[i].res) = 2
        /\ Get(inv[i].res[1], "review") = Str(<<"r">>)
        /\ Get(inv[i].res[1], "author_name") = Arr(<<>>)
        /\ Get(inv[i].res[1], "key") = Null
        /\ Get(inv[i].res[1], "raw") = inv[i].book

-----------------------------------------------------------------------------
(* Claims about the lifecycle (SpecLife)                                   *)

\* The call of the lifecycle that has returned, 0 when none has.
Returned(i) ==
    IF inv[i].pc = "done" THEN Len(Lifecycle) - opsLeft ELSE 0

\* C26: from an empty store, add of the record with key K returns one entry
\* with id K; isBookmarked(K) is then true; update(K, {review: R}) returns
\* that entry with review R and an updatedAt; remove(K) returns the empty
\* collection, and then getAll returns it and isBookmarked(K) is false; no
\* call fails.
C26_Lifecycle ==
    \A i \in Slots :
        /\ inv[i].pc # "failed"
        /\ Returned(i) = 1 => IdsOf(inv[i].res) = <<IdA>>
        /\ Returned(i) = 2 => inv[i].val
        /\ Returned(i) = 3 =>
                /\ IdsOf(inv[i].res) = <<IdA>>
                /\ Get(inv[i].res[1], "review") = Str(<<"r">>)
                /\ Get(inv[i].res[1], "updatedAt") = Iso(now)
                /\ Get(inv[i].pre[1], "updatedAt") = Undef
        /\ Returned(i) = 4 => inv[i].res = <<>> /\ file = ArrayText(<<>>)
        /\ Returned(i) = 5 => inv[i].res = <<>>
        /\ Returned(i) = 6 => ~inv[i].val

\* C26 witness: the last call of the lifecycle, isBookmarked(K), has
\* returned false on the store the calls before it wrote.
C26_Witness ==
    \E i \in Slots :
        /\ Returned(i) = 6
        /\ inv[i].op = "check"
        /\ ~inv[i].val
        /\ saved.set
        /\ file = ArrayText(<<>>)

-----------------------------------------------------------------------------
(* Claims about termination (SpecOneFair)                                   *)

\* The place of a step in a handler's run.
Rank(pc) ==
    CASE pc = "read" -> 1
      [] pc = "bootMkdir" -> 2
      [] pc = "bootOpen" -> 3
      [] pc = "bootWrite" -> 4
      [] pc = "loaded" -> 5
      [] pc = "saveOpen" -> 6
      [] pc = "saveWrite" -> 7
      [] OTHER -> 8

\* C27: every operation invoked returns or fails, given that each of its
\* file-system steps completes; and each step of an invocation moves it
\* forward, so that no read, bootstrap or save step runs twice for it.
C27_OnceAndTerminates ==
    /\ \A i \in Slots :
        (inv[i].pc = "read") ~> (inv[i].pc \in {"done", "failed"})
    /\ [][\A i \in Slots :
            (inv[i].pc \notin {"idle", "done", "failed"} /\ inv'[i] # inv[i])
                => /\ Rank(inv'[i].pc) > Rank(inv[i].pc)
                   /\ inv'[i].nboot <= 1
                   /\ inv'[i].nsave <= 1]_vars

\* C27 witness: an add has returned after a read, a bootstrap and a save.
C27_Witness ==
    \E i \in Slots :
        /\ inv[i].op = "add" /\ inv[i].pc = "done"
        /\ inv[i].enoent
        /\ inv[i].nboot = 1
        /\ inv[i].nsave = 1
        /\ file = Stringify(inv[i].res)

-----------------------------------------------------------------------------
(* Claims about the pages' handlers (SpecPage)                             *)

\* isBookmarked(id) as the store would answer it now.
Bookmarked(id) == HasEntry(Content(file).list, id)

\* The handler named has run to completion on a page that has the bookmark
\* API, and no call of it failed.
Completed(h) == ui.api /\ ui.h = "none" /\ ui.last = h /\ ~ui.err

\* C28: on the search, home and detail pages, a click on the bookmark
\* button handled to completion with no error flips the store membership
\* of the book's id, and the button's 'bookmarked' class then equals
\* isBookmarked(id).
C28_ToggleFlips ==
    Completed("toggle") =>
        /\ Bookmarked(ui.bookId) = ~ui.before
        /\ ui.marked = Bookmarked(ui.bookId)

\* C29: after a book that was not marked read is marked as read and the
\* handler has completed without error, isBookmarked(id) is true and the
\* button shows 'bookmarked'; marking a book as unread leaves the document
\* as it was.
C29_ReadAutoBookmarks ==
    /\ Completed("read") => Bookmarked(ui.bookId) /\ ui.marked
    /\ Completed("unread") => file = ui.fileAt /\ \A i \in Slots : inv[i] = Idle

\* The ids the displayed book goes by: the page's bookId and the _id the
\* store gives the record the page sends.
DisplayedIds == {ui.bookId, idForBook(pagePayload(ui.book))}

\* The collection has an entry for the displayed book.
HasDisplayed(list) == \E n \in 1..Len(list) : Get(list[n], "_id") \in DisplayedIds

\* The entry without its review and its updatedAt.
RECURSIVE Rest(_)
Rest(o) ==
    IF o = <<>> THEN <<>>
    ELSE IF o[1][1] \in {"review", "updatedAt"} THEN Rest(Tail(o))
    ELSE <<o[1]>> \o Rest(Tail(o))

\* C30: after the save-review handler of the detail page has completed
\* without error, the collection has an entry for the displayed book
\* whose review is the trimmed text; if the book had an entry, that entry
\* differs from the one before in review and updatedAt only and the other
\* entries are as before; otherwise the entry is new.
C30_ReviewSaved ==
    Completed("review") =>
        LET list == Content(file).list
            was == Content(ui.fileAt).list
        IN /\ \E n \in 1..Len(list) :
                /\ Get(list[n], "_id") \in DisplayedIds
                /\ Get(list[n], "review") = Str(ui.reviewText)
           /\ HasDisplayed(was) =>
                /\ Len(list) = Len(was)
                /\ \A n \in 1..Len(list) :
                      IF Get(was[n], "_id") \in DisplayedIds
                      THEN Rest(list[n]) = Rest(was[n])
                      ELSE list[n] = was[n]
           /\ ~HasDisplayed(was) => Len(list) = Len(was) + 1

C31_WitnessNoApi ==
    /\ ui.kind = "home" /\ ~ui.api /\ ui.h = "none" /\ ui.last = "toggle"
    /\ ui.marked = ~ui.markedAt /\ ui.clicks = 1

-----------------------------------------------------------------------------
(* Claims about failures, interleavings and frames                         *)

\* C32: an add that failed with 'Invalid book data' and an update that
\* failed with 'Bookmark not found' have written nothing, neither the
\* bootstrap's '[]' nor a save, and a document their load found absent is
\* still absent.
C32_FailedWritesNothing ==
    \A i \in Slots :
        (/\ inv[i].pc = "failed"
         /\ inv[i].err \in {"Invalid book data", "Bookmark not found"}) =>
            /\ inv[i].nboot = 0
            /\ inv[i].nsave = 0
            /\ inv[i].enoent => file = Absent

\* C33: whatever the interleaving, no step of a bootstrap (its open, which
\* truncates, or its write of '[]') changes a document that holds a
\* collection of one or more entries.
C33_BootstrapKeepsData ==
    [][\A i \in Slots :
          (/\ inv[i].pc \in {"bootOpen", "bootWrite"}
           /\ inv'[i].pc # inv[i].pc
           /\ file.k = "array" /\ Len(file.list) >= 1) => file' = file]_vars

\* The collection has an entry for the displayed book with a review that
\* is not empty.
HasReview(list) ==
    \E n \in 1..Len(list) :
        /\ Get(list[n], "_id") \in DisplayedIds
        /\ Truthy(Get(list[n], "review"))

\* C34: on the detail page, whatever the interleaving of its handlers, when
\* the document has an entry for the book with a non-empty review, the save
\* of the add that mark-as-read made keeps a non-empty review in it.
C34_ReviewSurvivesAutoBookmark ==
    [][(/\ ui.r = "add"
        /\ inv[1].pc = "saveOpen" /\ inv'[1].pc = "saveWrite"
        /\ HasReview(Content(file).list)) => HasReview(inv[1].res)]_vars

\* C35: after an add of a record whose id an entry of the loaded
\* collection has, the resulting entry has that entry's addedAt and
\* updatedAt, and its review when the record supplies none.
C35_ReAddPreserves ==
    \A i \in Slots :
        (/\ inv[i].op = "add" /\ inv[i].pc = "done"
         /\ HasEntry(inv[i].pre, idForBook(inv[i].book))) =>
            LET old == inv[i].pre[FindIndex(inv[i].pre, idForBook(inv[i].book))]
                new == inv[i].res[1]
            IN /\ Get(new, "addedAt") = Get(old, "addedAt")
               /\ Get(new, "updatedAt") = Get(old, "updatedAt")
               /\ Get(inv[i].book, "review") = Undef =>
                      Get(new, "review") = Get(old, "review")

\* The entries whose id differs from the id, in their order.
RECURSIVE Others(_, _)
Others(list, id) ==
    IF list = <<>> THEN <<>>
    ELSE IF Get(list[1], "_id") = id THEN Others(Tail(list), id)
    ELSE <<list[1]>> \o Others(Tail(list), id)

\* The collection without its k-th entry.
Without(list, k) == SubSeq(list, 1, k - 1) \o SubSeq(list, k + 1, Len(list))

\* The id an invocation is about.
TargetId(c) == IF c.op = "add" THEN idForBook(c.book) ELSE c.id

Keyless(book) == book # NoBook /\ ~Truthy(Get(book, "key"))

\* The two records have the same title, the same first author name and the
\* same cover reference, a missing part equal to a missing or empty one.
SameParts(a, b) ==
    /\ PartOrEmpty(Get(a, "title")) = PartOrEmpty(Get(b, "title"))
    /\ FirstAuthorOrEmpty(Get(a, "author_name")) = FirstAuthorOrEmpty(Get(b, "author_name"))
    /\ PartOrEmpty(Get(a, "cover_i")) = PartOrEmpty(Get(b, "cover_i"))

\* C37: two records without a catalog key that receive the same id have
\* the same title, first author name and cover reference; a record without
\* a key receives the id of a record with a key only when that key is its
\* composite string.
C37_CompositeInjective ==
    probe.ids # <<>> =>
        \A j, k \in 1..2 :
            (Keyless(probe.books[j]) /\ probe.ids[j] = probe.ids[k]) =>
                IF Keyless(probe.books[k])
                THEN SameParts(probe.books[j], probe.books[k])
                ELSE /\ probe.books[k] # NoBook
                     /\ Get(probe.books[k], "key") = ContractId(probe.books[j])

\* C38: bookmarks-add throws 'Invalid book data' on a record exactly when
\* the record is absent; every other record is accepted, and two accepted
\* records that differ in title, first author name or cover reference are
\* stored under different ids.
C38_OnlyAbsentRejected ==
    probe.ids # <<>> =>
        /\ \A j \in 1..2 :
              (probe.errs[j] = "Invalid book data") <=> (probe.books[j] = NoBook)
        /\ (/\ probe.books[1] # NoBook /\ probe.books[2] # NoBook
            /\ ~SameParts(probe.books[1], probe.books[2]))
                => probe.ids[1] # probe.ids[2]

\* C39: a handler whose load read a zero-length document goes on with the
\* empty collection and no parse error; getAll returns [] and isBookmarked
\* returns false, and neither changes the document.
C39_ZeroLengthIsEmpty ==
    [][\A i \in Slots :
          (inv[i].pc = "loaded" /\ inv[i].doc = EmptyText /\ inv'[i] # inv[i]) =>
              /\ inv'[i].err \in {"", "Invalid book data", "Bookmark not found"}
              /\ inv'[i].err = "" => inv'[i].pre = <<>>
              /\ inv[i].op \in {"get", "check"} =>
                    /\ inv'[i].pc = "done"
                    /\ inv'[i].res = <<>>
                    /\ ~inv'[i].val
                    /\ file' = file]_vars

\* C39 witness: getAll has returned [] and the document is still
\* zero-length.
C39_Witness ==
    \E i \in Slots :
        /\ inv[i].op = "get" /\ inv[i].pc = "done"
        /\ inv[i].res = <<>> /\ inv[i].nboot = 0
        /\ file = EmptyText

====
